---- MODULE Spec2Model ----
(***************************************************************************)
(* Model of check_mindmaps.py: one run of check_mindmaps() over the two    *)
(* input files seed/modules.json and seed/mindmaps.json.                   *)
(*                                                                         *)
(* The two files are the inputs of the run and are chosen in Init.  The    *)
(* run is a sequence of steps that follow the statements of the function:  *)
(* the two `with open(...)` blocks (open, json.load, leave the block), the *)
(* loop that builds mindmap_module_ids, the two count lines, the loop that *)
(* builds missing_modules, the final report, and the except clause.        *)
(***************************************************************************)
EXTENDS Integers, Sequences, FiniteSets

\* Largest number of elements of the modules document.
MaxModules == 2
\* Largest number of elements of the mindmaps document.
MaxMindmaps == 2

-----------------------------------------------------------------------------
(* Lines of standard output.  A line is known by its text: a line that a   *)
(* title carries after a line break is the same value as the line the      *)
(* program prints with that text.                                          *)

Line(k, n, s) == [k |-> k, n |-> n, s |-> s]
TotalModulesLine(n) == Line("TotalModules", n, "")
TotalMindmapsLine(n) == Line("TotalMindmaps", n, "")
BlankLine == Line("Blank", 0, "")
HeaderLine == Line("Header", 0, "")
AllCoveredLine == Line("AllCovered", 0, "")
EntryLine(i, s) == Line("Entry", i, s)
ErrorLine(x) == Line("Error", 0, x)

-----------------------------------------------------------------------------
(* The text of a title: its first line, the lines that follow its line     *)
(* breaks, and whether standard output can encode it (a lone surrogate     *)
(* such as "\ud800" is valid JSON that no UTF-8 stream encodes).           *)

Title(first, rest, enc) == [first |-> first, rest |-> rest, enc |-> enc]
NoTitle == Title("", <<>>, TRUE)

\* "A", "A\nAll modules have at least one mindmap.", "A\nError: x", "\ud800".
Titles ==
    {Title("A", <<>>, TRUE),
     Title("A", <<AllCoveredLine>>, TRUE),
     Title("A", <<ErrorLine("x")>>, TRUE),
     Title("?", <<>>, FALSE)}

-----------------------------------------------------------------------------
(* JSON values of a mindmap's module_id.  A value is a record [t, n]:      *)
(* null, an integer n, the boolean true, a string, or a list.              *)

Null == [t |-> "null", n |-> 0]
IntV(n) == [t |-> "int", n |-> n]
TrueV == [t |-> "bool", n |-> 1]
StrV == [t |-> "str", n |-> 0]
ListV == [t |-> "list", n |-> 0]

\* The module_id values of the model: ids 0..MaxModules cover every
\* position of a modules document and ids outside 1..len(modules).
IdValues == {Null, TrueV, StrV, ListV} \cup {IntV(n) : n \in 0..MaxModules}

(* An element of the mindmaps document: a record (JSON object) with or     *)
(* without the key module_id, or something that is not a JSON object.      *)
MindmapRec(v) == [rec |-> TRUE, has_id |-> TRUE, id |-> v]
MindmapNoId == [rec |-> TRUE, has_id |-> FALSE, id |-> Null]
MindmapNonRec == [rec |-> FALSE, has_id |-> FALSE, id |-> Null]
MindmapElems == {MindmapRec(v) : v \in IdValues} \cup {MindmapNoId, MindmapNonRec}

(* An element of the modules document: a record with or without the key    *)
(* title, or something that is not a JSON object.                          *)
ModuleRec(s) == [rec |-> TRUE, has_title |-> TRUE, title |-> s]
ModuleNoTitle == [rec |-> TRUE, has_title |-> FALSE, title |-> NoTitle]
ModuleNonRec == [rec |-> FALSE, has_title |-> FALSE, title |-> NoTitle]
ModuleElems == {ModuleRec(s) : s \in Titles} \cup {ModuleNoTitle, ModuleNonRec}

SeqsUpTo(S, n) == UNION {[1..k -> S] : k \in 0..n}

(* A file: absent (open fails), badjson (json.load fails), or a parsed     *)
(* top-level value: a list of elements, a dict (iterating it yields its    *)
(* keys, which are strings, so none of them is a record), or a scalar      *)
(* (number, true, false, null: neither iterable nor sized).                *)
Doc(k, items) == [kind |-> k, items |-> items]
Unbound == Doc("unbound", <<>>)
FilesOver(elems, nonrec, max) ==
    {Doc("absent", <<>>), Doc("badjson", <<>>), Doc("scalar", <<>>)}
    \cup {Doc("list", s) : s \in SeqsUpTo(elems, max)}
    \cup {Doc("dict", s) : s \in SeqsUpTo({nonrec}, max)}
ModulesFiles == FilesOver(ModuleElems, ModuleNonRec, MaxModules)
MindmapsFiles == FilesOver(MindmapElems, MindmapNonRec, MaxMindmaps)

-----------------------------------------------------------------------------
(* Python operations used by the function.                                 *)

\* open(path): fails when the file does not exist or cannot be opened.
CanOpen(file) == file.kind # "absent"

\* json.load(f): fails when the content is not valid JSON.
Parses(file) == file.kind # "badjson"

\* iter(x) and len(x) are defined for lists and dicts only.
Iterable(doc) == doc.kind \in {"list", "dict"}
HasLen(doc) == doc.kind \in {"list", "dict"}
LenOf(doc) == Len(doc.items)

\* mm.get('module_id'): the value, or None when the key is absent.
Get(mm) == IF mm.has_id THEN mm.id ELSE Null

\* x is not None
IsNotNone(v) == v.t # "null"

\* hash(x): lists are unhashable.
Hashable(v) == v.t # "list"

\* The element a set keeps for a value: True and 1 are equal and hash
\* alike, strings never equal a number.
Key(v) == IF v.t \in {"int", "bool"} THEN [t |-> "num", n |-> v.n]
          ELSE [t |-> v.t, n |-> v.n]

\* i in mindmap_module_ids, for an integer i.
Contains(ids, i) == [t |-> "num", n |-> i] \in ids

\* enumerate(modules, 1): the first index.
StartIndex == 1

\* except Exception: every exception raised here is an Exception.
Catches(x) == x \in {"OSError", "ValueError", "TypeError", "AttributeError", "KeyError"}

\* f"ID {i}: {module['title']}": the string appended to missing_modules.
Entry(i, title) == [id |-> i, title |-> title]

\* The lines print(m) writes for an entry m: a line break in the title
\* starts a new line.
EntryLines(m) == <<EntryLine(m.id, m.title.first)>> \o m.title.rest

\* print(m) raises UnicodeEncodeError, a ValueError, when standard output
\* cannot encode the text; nothing of m is written then.
Encodable(m) == m.title.enc

-----------------------------------------------------------------------------
(* The two loops.  A result is [exc, val]: exc = "" on normal completion.  *)

\* Variant: mm['module_id'] is not None, a KeyError when the key is absent.
AddRefSubscript(ids, mm) ==
    IF ~mm.rec THEN [exc |-> "TypeError", val |-> ids]
    ELSE IF ~mm.has_id THEN [exc |-> "KeyError", val |-> ids]
    ELSE IF mm.id.t = "null" THEN [exc |-> "", val |-> ids]
    ELSE IF mm.id.t = "list" THEN [exc |-> "TypeError", val |-> ids]
    ELSE [exc |-> "", val |-> ids \cup {Key(mm.id)}]

\* Lines 13-14: one iteration of the loop over mindmaps.
AddRef(ids, mm) ==
    IF ~mm.rec THEN [exc |-> "AttributeError", val |-> ids]
    ELSE IF ~IsNotNone(Get(mm)) THEN [exc |-> "", val |-> ids]
    ELSE IF ~Hashable(mm.id) THEN [exc |-> "TypeError", val |-> ids]
    ELSE [exc |-> "", val |-> ids \cup {Key(mm.id)}]

RECURSIVE ScanMindmaps(_, _, _)
ScanMindmaps(items, j, ids) ==
    IF j > Len(items) THEN [exc |-> "", val |-> ids]
    ELSE LET r == AddRef(ids, items[j])
         IN IF r.exc # "" THEN r ELSE ScanMindmaps(items, j + 1, r.val)

\* Lines 11-14.
CollectIds(doc) ==
    IF ~Iterable(doc) THEN [exc |-> "TypeError", val |-> {}]
    ELSE ScanMindmaps(doc.items, 1, {})

\* Variant: missing_modules.insert(0, ...) instead of append.
CheckModuleInsertFront(i, module, ids, missing) ==
    IF [t |-> "num", n |-> i] \in ids THEN [exc |-> "", val |-> missing]
    ELSE IF ~module.rec THEN [exc |-> "TypeError", val |-> missing]
    ELSE IF ~module.has_title THEN [exc |-> "KeyError", val |-> missing]
    ELSE [exc |-> "", val |-> <<Entry(i, module.title)>> \o missing]

\* Variant: title = module['title'] read before the membership test.
CheckModuleEager(i, module, ids, missing) ==
    IF ~module.rec THEN [exc |-> "TypeError", val |-> missing]
    ELSE IF ~module.has_title THEN [exc |-> "KeyError", val |-> missing]
    ELSE IF [t |-> "num", n |-> i] \in ids THEN [exc |-> "", val |-> missing]
    ELSE [exc |-> "", val |-> Append(missing, Entry(i, module.title))]

\* Lines 21-22: one iteration of the loop over modules.
CheckModule(i, module, ids, missing) ==
    IF Contains(ids, i) THEN [exc |-> "", val |-> missing]
    ELSE IF ~module.rec THEN [exc |-> "TypeError", val |-> missing]
    ELSE IF ~module.has_title THEN [exc |-> "KeyError", val |-> missing]
    ELSE [exc |-> "", val |-> Append(missing, Entry(i, module.title))]

RECURSIVE ScanModules(_, _, _, _)
ScanModules(items, j, ids, missing) ==
    IF j > Len(items) THEN [exc |-> "", val |-> missing]
    ELSE LET r == CheckModule(StartIndex + j - 1, items[j], ids, missing)
         IN IF r.exc # "" THEN r ELSE ScanModules(items, j + 1, ids, r.val)

\* Lines 19-22.
FindMissing(doc, ids) ==
    IF ~Iterable(doc) THEN [exc |-> "TypeError", val |-> <<>>]
    ELSE ScanModules(doc.items, 1, ids, <<>>)

\* Lines 26-27: print the entries from the j-th on, after the lines
\* printed so far; the first entry that cannot be encoded ends the loop.
RECURSIVE PrintEntries(_, _, _)
PrintEntries(missing, j, printed) ==
    IF j > Len(missing) THEN [exc |-> "", val |-> printed]
    ELSE IF ~Encodable(missing[j]) THEN [exc |-> "ValueError", val |-> printed]
    ELSE PrintEntries(missing, j + 1, printed \o EntryLines(missing[j]))

\* Lines 24-29: the lines the final if/else prints, and the exception
\* that ends it, if any.
ResultLines(missing) ==
    IF missing # <<>> THEN PrintEntries(missing, 1, <<BlankLine, HeaderLine>>)
    ELSE [exc |-> "", val |-> <<BlankLine, AllCoveredLine>>]

\* Lines 3-32: the whole output of a run on the files A and B.
Run(A, B) ==
    IF ~CanOpen(A) THEN <<ErrorLine("OSError")>>
    ELSE IF ~Parses(A) THEN <<ErrorLine("ValueError")>>
    ELSE IF ~CanOpen(B) THEN <<ErrorLine("OSError")>>
    ELSE IF ~Parses(B) THEN <<ErrorLine("ValueError")>>
    ELSE LET r == CollectIds(B)
         IN IF r.exc # "" THEN <<ErrorLine(r.exc)>>
            ELSE IF ~HasLen(A) THEN <<ErrorLine("TypeError")>>
            ELSE LET counts == <<TotalModulesLine(LenOf(A)), TotalMindmapsLine(LenOf(B))>>
                     m == FindMissing(A, r.val)
                 IN IF m.exc # "" THEN Append(counts, ErrorLine(m.exc))
                    ELSE LET p == ResultLines(m.val)
                         IN IF p.exc # "" THEN Append(counts \o p.val, ErrorLine(p.exc))
                            ELSE counts \o p.val

-----------------------------------------------------------------------------
VARIABLES
    modulesFile,        \* seed/modules.json
    mindmapsFile,       \* seed/mindmaps.json
    pc,                 \* the next statement of check_mindmaps
    open,               \* the file handles that are open
    modules,            \* local variable modules
    mindmaps,           \* local variable mindmaps
    mindmap_module_ids, \* local variable mindmap_module_ids
    missing_modules,    \* local variable missing_modules
    raised,             \* the exception in flight, "" when there is none
    e,                  \* the exception bound by the except clause, "" before
    out                 \* the lines written to standard output

vars == <<modulesFile, mindmapsFile, pc, open, modules, mindmaps,
          mindmap_module_ids, missing_modules, raised, e, out>>

Init ==
    /\ modulesFile \in ModulesFiles
    /\ mindmapsFile \in MindmapsFiles
    /\ pc = "open_modules"
    /\ open = {}
    /\ modules = Unbound
    /\ mindmaps = Unbound
    /\ mindmap_module_ids = {}
    /\ missing_modules = <<>>
    /\ raised = ""
    /\ e = ""
    /\ out = <<>>

\* Line 5: open('seed/modules.json').
OpenModules ==
    /\ pc = "open_modules"
    /\ IF CanOpen(modulesFile)
       THEN /\ open' = open \cup {"modules"}
            /\ pc' = "load_modules"
            /\ raised' = raised
       ELSE /\ raised' = "OSError"
            /\ pc' = "except"
            /\ open' = open
    /\ UNCHANGED <<modulesFile, mindmapsFile, modules, mindmaps,
                   mindmap_module_ids, missing_modules, e, out>>

\* Line 6: modules = json.load(f).
LoadModules ==
    /\ pc = "load_modules"
    /\ IF Parses(modulesFile)
       THEN modules' = modulesFile /\ raised' = raised
       ELSE modules' = modules /\ raised' = "ValueError"
    /\ pc' = "close_modules"
    /\ UNCHANGED <<modulesFile, mindmapsFile, open, mindmaps,
                   mindmap_module_ids, missing_modules, e, out>>

\* Variant: f.close() after json.load instead of a with block, skipped
\* when json.load raises.
CloseModulesUnlessRaised ==
    /\ pc = "close_modules"
    /\ open' = IF raised = "" THEN open \ {"modules"} ELSE open
    /\ pc' = IF raised = "" THEN "open_mindmaps" ELSE "except"
    /\ UNCHANGED <<modulesFile, mindmapsFile, modules, mindmaps,
                   mindmap_module_ids, missing_modules, raised, e, out>>

\* Lines 5-6: leaving the with block closes the file, with or without an
\* exception in flight.
CloseModules ==
    /\ pc = "close_modules"
    /\ open' = open \ {"modules"}
    /\ pc' = IF raised = "" THEN "open_mindmaps" ELSE "except"
    /\ UNCHANGED <<modulesFile, mindmapsFile, modules, mindmaps,
                   mindmap_module_ids, missing_modules, raised, e, out>>

\* Line 8: open('seed/mindmaps.json').
OpenMindmaps ==
    /\ pc = "open_mindmaps"
    /\ IF CanOpen(mindmapsFile)
       THEN /\ open' = open \cup {"mindmaps"}
            /\ pc' = "load_mindmaps"
            /\ raised' = raised
       ELSE /\ raised' = "OSError"
            /\ pc' = "except"
            /\ open' = open
    /\ UNCHANGED <<modulesFile, mindmapsFile, modules, mindmaps,
                   mindmap_module_ids, missing_modules, e, out>>

\* Line 9: mindmaps = json.load(f).
LoadMindmaps ==
    /\ pc = "load_mindmaps"
    /\ IF Parses(mindmapsFile)
       THEN mindmaps' = mindmapsFile /\ raised' = raised
       ELSE mindmaps' = mindmaps /\ raised' = "ValueError"
    /\ pc' = "close_mindmaps"
    /\ UNCHANGED <<modulesFile, mindmapsFile, open, modules,
                   mindmap_module_ids, missing_modules, e, out>>

\* Lines 8-9: leaving the with block closes the file.
CloseMindmaps ==
    /\ pc = "close_mindmaps"
    /\ open' = open \ {"mindmaps"}
    /\ pc' = IF raised = "" THEN "build_ids" ELSE "except"
    /\ UNCHANGED <<modulesFile, mindmapsFile, modules, mindmaps,
                   mindmap_module_ids, missing_modules, raised, e, out>>

\* Lines 11-14: build mindmap_module_ids.
BuildIds ==
    /\ pc = "build_ids"
    /\ LET r == CollectIds(mindmaps)
       IN /\ mindmap_module_ids' = r.val
          /\ raised' = r.exc
          /\ pc' = IF r.exc = "" THEN "print_total_modules" ELSE "except"
    /\ UNCHANGED <<modulesFile, mindmapsFile, open, modules, mindmaps,
                   missing_modules, e, out>>

\* Line 16: print(f"Total Modules: {len(modules)}").
PrintTotalModules ==
    /\ pc = "print_total_modules"
    /\ IF HasLen(modules)
       THEN /\ out' = Append(out, TotalModulesLine(LenOf(modules)))
            /\ pc' = "print_total_mindmaps"
            /\ raised' = raised
       ELSE /\ raised' = "TypeError"
            /\ pc' = "except"
            /\ out' = out
    /\ UNCHANGED <<modulesFile, mindmapsFile, open, modules, mindmaps,
                   mindmap_module_ids, missing_modules, e>>

\* Variant: len(mindmap_module_ids) printed instead of len(mindmaps).
PrintTotalMindmapsDistinct ==
    /\ pc = "print_total_mindmaps"
    /\ out' = Append(out, TotalMindmapsLine(Cardinality(mindmap_module_ids)))
    /\ pc' = "find_missing"
    /\ UNCHANGED <<modulesFile, mindmapsFile, open, modules, mindmaps,
                   mindmap_module_ids, missing_modules, raised, e>>

\* Line 17: print(f"Total Mindmaps: {len(mindmaps)}").
PrintTotalMindmaps ==
    /\ pc = "print_total_mindmaps"
    /\ IF HasLen(mindmaps)
       THEN /\ out' = Append(out, TotalMindmapsLine(LenOf(mindmaps)))
            /\ pc' = "find_missing"
            /\ raised' = raised
       ELSE /\ raised' = "TypeError"
            /\ pc' = "except"
            /\ out' = out
    /\ UNCHANGED <<modulesFile, mindmapsFile, open, modules, mindmaps,
                   mindmap_module_ids, missing_modules, e>>

\* Lines 19-22: build missing_modules.
CollectMissing ==
    /\ pc = "find_missing"
    /\ LET r == FindMissing(modules, mindmap_module_ids)
       IN /\ missing_modules' = r.val
          /\ raised' = r.exc
          /\ pc' = IF r.exc = "" THEN "print_result" ELSE "except"
    /\ UNCHANGED <<modulesFile, mindmapsFile, open, modules, mindmaps,
                   mindmap_module_ids, e, out>>

\* Lines 24-29: print the missing list or the all-covered message.
PrintResult ==
    /\ pc = "print_result"
    /\ LET r == ResultLines(missing_modules)
       IN /\ out' = out \o r.val
          /\ raised' = r.exc
          /\ pc' = IF r.exc = "" THEN "done" ELSE "except"
    /\ UNCHANGED <<modulesFile, mindmapsFile, open, modules, mindmaps,
                   mindmap_module_ids, missing_modules, e>>

\* Lines 31-32: except Exception as e: print(f"Error: {e}").
HandleException ==
    /\ pc = "except"
    /\ IF Catches(raised)
       THEN /\ e' = raised
            /\ out' = Append(out, ErrorLine(raised))
            /\ raised' = ""
            /\ pc' = "done"
       ELSE /\ pc' = "crashed"
            /\ UNCHANGED <<out, raised, e>>
    /\ UNCHANGED <<modulesFile, mindmapsFile, open, modules, mindmaps,
                   mindmap_module_ids, missing_modules>>

Next ==
    \/ OpenModules
    \/ LoadModules
    \/ CloseModules
    \/ OpenMindmaps
    \/ LoadMindmaps
    \/ CloseMindmaps
    \/ BuildIds
    \/ PrintTotalModules
    \/ PrintTotalMindmaps
    \/ CollectMissing
    \/ PrintResult
    \/ HandleException

Spec == Init /\ [][Next]_vars

\* The run is sequential and nothing blocks it: an enabled step is taken.
FairSpec == Spec /\ WF_vars(Next)
-----------------------------------------------------------------------------
(* Vocabulary of the properties.                                           *)

Done == pc = "done"

\* A modules document as the specification expects it: a list of records
\* that all carry a title.
WellFormedModules(doc) ==
    /\ doc.kind = "list"
    /\ \A j \in 1..Len(doc.items) : doc.items[j].rec /\ doc.items[j].has_title

\* A mindmaps document as the specification expects it: a list of records
\* whose module_id is absent, null or an integer.
WellFormedMindmaps(doc) ==
    /\ doc.kind = "list"
    /\ \A j \in 1..Len(doc.items) :
          /\ doc.items[j].rec
          /\ doc.items[j].has_id => doc.items[j].id.t \in {"null", "int"}

WellFormed == WellFormedModules(modulesFile) /\ WellFormedMindmaps(mindmapsFile)

\* A file that is absent or malformed: it cannot be opened, is not valid
\* JSON, or its top-level value is not a sequence of records.
Malformed(doc) ==
    \/ doc.kind # "list"
    \/ \E j \in 1..Len(doc.items) : ~doc.items[j].rec

\* Some mindmap record of B has module_id equal to the integer k.
ReferencedIn(B, k) ==
    \E j \in 1..Len(B.items) : B.items[j].has_id /\ B.items[j].id = IntV(k)

\* A mindmap record whose module_id is absent or null.
NullOrAbsent(mm) == mm.rec /\ (~mm.has_id \/ mm.id = Null)
IsKept(mm) == ~NullOrAbsent(mm)

\* B without the records whose module_id is absent or null.
Strip(B) == Doc(B.kind, SelectSeq(B.items, IsKept))

IsNotMindmapCount(l) == l.k # "TotalMindmaps"
WithoutMindmapCount(lines) == SelectSeq(lines, IsNotMindmapCount)

Has(lines, kind) == \E p \in 1..Len(lines) : lines[p].k = kind
CountOf(lines, kind) == Cardinality({p \in 1..Len(lines) : lines[p].k = kind})

\* The run got past the two count lines.
CountsPrinted == Len(out) >= 2 /\ out[2].k = "TotalMindmaps"

\* The run printed the header of the missing list.
HeaderPrinted == CountsPrinted /\ Len(out) >= 4 /\ out[4] = HeaderLine

\* The output holds one full report: the two counts, the blank line, then
\* the all-covered message, or the header and every entry of the list.
FullReportEmitted ==
    /\ CountsPrinted
    /\ Len(out) >= 4
    /\ out[3] = BlankLine
    /\ \/ Len(out) = 4 /\ out[4] = AllCoveredLine
       \/ HeaderPrinted /\ Len(out) >= 5 /\ e = ""

\* Every positional id of the loaded modules is in mindmap_module_ids.
AllReferenced == \A k \in 1..LenOf(modules) : Contains(mindmap_module_ids, k)

\* The lines of the first n entries of a list.
RECURSIVE Flat(_, _)
Flat(entries, n) ==
    IF n = 0 THEN <<>> ELSE Flat(entries, n - 1) \o EntryLines(entries[n])

-----------------------------------------------------------------------------
(* C1 (P2, coverage completeness): for well-formed inputs, the finished    *)
(* output has the entry line "ID k: <title of the k-th module>" exactly    *)
(* when no mindmap record has module_id = k, for every k in                *)
(* 1..len(modules).                                                        *)
C1_CoverageCompleteness ==
    (Done /\ WellFormed) =>
        \A k \in 1..Len(modulesFile.items) :
            (\E p \in 1..Len(out) :
                out[p] = EntryLine(k, modulesFile.items[k].title.first))
            <=> ~ReferencedIn(mindmapsFile, k)

(* C2 (P6, error containment): when either input file is absent or         *)
(* malformed (not valid JSON, or a top-level value that is not a sequence  *)
(* of records), the finished output is exactly one Error line.             *)
C2_ErrorContainment ==
    (Done /\ (Malformed(modulesFile) \/ Malformed(mindmapsFile))) =>
        Len(out) = 1 /\ out[1].k = "Error"

(* C3 (no partial report): when a run fails, that is when its except       *)
(* clause runs, its output is the Error line alone; no count line comes    *)
(* with it.                                                                *)
C3_NoPartialReport ==
    (Done /\ e # "") => out = <<ErrorLine(e)>>

(* C4 (P1, counts): for well-formed inputs the finished output starts with *)
(* "Total Modules: len(A)" then "Total Mindmaps: len(B)", before the       *)
(* header, any missing-module line and the all-covered message.            *)
C4_Counts ==
    (Done /\ WellFormed) =>
        /\ Len(out) >= 3
        /\ out[1] = TotalModulesLine(Len(modulesFile.items))
        /\ out[2] = TotalMindmapsLine(Len(mindmapsFile.items))
        /\ \A p \in 1..Len(out) :
              out[p].k \in {"Header", "Entry", "AllCovered"} => p > 2

\* A finished well-formed run whose mindmaps repeat a reference or have a
\* null module_id, so that the count differs from the number of distinct ids.
C4_Witness ==
    /\ Done /\ WellFormed
    /\ Len(modulesFile.items) >= 1
    /\ Len(mindmapsFile.items) >= 2
    /\ Cardinality(mindmap_module_ids) < Len(mindmapsFile.items)
    /\ Has(out, "Entry")

(* C5 (P3, null tolerance): mindmap records whose module_id is absent or   *)
(* null add nothing to mindmap_module_ids and cause no error: the set is   *)
(* the one built from B without these records, and the finished output is, *)
(* apart from the Total Mindmaps line, the output of a run on B without    *)
(* these records.                                                          *)
C5_NullTolerance ==
    Done =>
        /\ WithoutMindmapCount(out)
              = WithoutMindmapCount(Run(modulesFile, Strip(mindmapsFile)))
        /\ mindmaps # Unbound =>
              mindmap_module_ids = CollectIds(Strip(mindmapsFile)).val

\* A finished run whose mindmaps hold a record without module_id and one
\* with a null module_id, and which reports a missing module without error.
C5_Witness ==
    /\ Done
    /\ mindmapsFile.kind = "list"
    /\ \E j \in 1..Len(mindmapsFile.items) : mindmapsFile.items[j] = MindmapNoId
    /\ \E j \in 1..Len(mindmapsFile.items) : mindmapsFile.items[j] = MindmapRec(Null)
    /\ Has(out, "Entry")
    /\ e = ""

(* C6 (P5, no-missing message): once the counts are printed, if every id   *)
(* in 1..len(modules) is in mindmap_module_ids (also when len = 0) the     *)
(* finished output is the counts followed by the all-covered message, with *)
(* no header and no entry; the all-covered line appears only in that case; *)
(* a finished output without Error line has exactly one of the two         *)
(* alternatives.                                                           *)
C6_NoMissingMessage ==
    Done =>
        /\ (CountsPrinted /\ AllReferenced) =>
              /\ Len(out) = 4
              /\ out[3] = BlankLine
              /\ out[4] = AllCoveredLine
        /\ Has(out, "AllCovered") =>
              /\ CountsPrinted /\ AllReferenced
              /\ CountOf(out, "AllCovered") = 1
              /\ ~Has(out, "Entry") /\ ~Has(out, "Header") /\ ~Has(out, "Error")
        /\ ~Has(out, "Error") =>
              (Has(out, "AllCovered") <=> ~(Has(out, "Header") /\ Has(out, "Entry")))

(* C7 (P4, ascending order): the entries of missing_modules are in         *)
(* strictly ascending order of id, so no id appears twice, and they are    *)
(* emitted in the order of the list: what follows the header is the lines  *)
(* of the entries in list order, all of them, or those before the first    *)
(* entry that cannot be printed and then the Error line.                   *)
C7_AscendingOrder ==
    /\ \A p, q \in 1..Len(missing_modules) :
          p < q => missing_modules[p].id < missing_modules[q].id
    /\ (Done /\ HeaderPrinted) =>
          LET body == SubSeq(out, 5, Len(out))
              n == Len(missing_modules)
          IN \/ e = "" /\ n >= 1 /\ body = Flat(missing_modules, n)
             \/ /\ e # ""
                /\ \E m \in 0..(n - 1) :
                      /\ ~Encodable(missing_modules[m + 1])
                      /\ body = Append(Flat(missing_modules, m), ErrorLine(e))

\* A finished run that lists two missing modules while the mindmaps repeat
\* a reference.
C7_Witness ==
    /\ Done /\ HeaderPrinted /\ e = ""
    /\ Len(missing_modules) >= 2
    /\ CountOf(out, "Entry") >= 2
    /\ Len(mindmapsFile.items) >= 2
    /\ mindmapsFile.items[1] = mindmapsFile.items[2]
    /\ mindmapsFile.items[1].id.t = "int"

(* C8 (lazy title check): after the counts are printed, over a list of     *)
(* module records, a record without title whose id is referenced causes no *)
(* error: when every record without title is referenced no KeyError is     *)
(* raised, and the run ends with a full report when the titles it prints   *)
(* can be printed; a record without title whose id is not referenced makes *)
(* the finished output end with the KeyError line.                         *)
C8_LazyTitleCheck ==
    (/\ Done /\ CountsPrinted
     /\ modules.kind = "list"
     /\ \A k \in 1..LenOf(modules) : modules.items[k].rec) =>
        /\ (\A k \in 1..LenOf(modules) :
               ~modules.items[k].has_title => Contains(mindmap_module_ids, k))
           => /\ e \notin {"KeyError", "TypeError"}
              /\ (\A k \in 1..LenOf(modules) :
                     Contains(mindmap_module_ids, k) \/ modules.items[k].title.enc)
                 => (e = "" /\ FullReportEmitted)
        /\ (\E k \in 1..LenOf(modules) :
               ~modules.items[k].has_title /\ ~Contains(mindmap_module_ids, k))
           => (e = "KeyError" /\ out[Len(out)] = ErrorLine("KeyError"))

\* A finished run with a full report that lists a missing module although
\* a referenced module record has no title.
C8_Witness ==
    /\ Done /\ CountsPrinted
    /\ modules.kind = "list"
    /\ \E k \in 1..LenOf(modules) :
          /\ modules.items[k] = ModuleNoTitle
          /\ Contains(mindmap_module_ids, k)
    /\ e = ""
    /\ FullReportEmitted
    /\ Has(out, "Entry")

(* C9 (crash-free termination): every run terminates normally, no          *)
(* exception passes the except clause, and the terminated run has emitted  *)
(* one full report or one Error line, not both and not neither.            *)
C9_CrashFreeTermination ==
    /\ <>[](pc = "done")
    /\ [](pc # "crashed")
    /\ [](Done => (FullReportEmitted # (CountOf(out, "Error") = 1)))

(* C10 (scoped file handles): at most one handle is open at any time; the  *)
(* modules handle is open only between its open and the end of its with    *)
(* block, and so is the mindmaps handle; the mindmaps file is opened only  *)
(* after the modules file was loaded and closed; no handle is open in the  *)
(* except clause, while output is written or when the run has terminated.  *)
C10_ScopedHandles ==
    /\ Cardinality(open) <= 1
    /\ "modules" \in open => pc \in {"load_modules", "close_modules"}
    /\ "mindmaps" \in open =>
          /\ pc \in {"load_mindmaps", "close_mindmaps"}
          /\ modules # Unbound
    /\ pc \in {"load_mindmaps", "close_mindmaps"} => modules # Unbound
    /\ modules = Unbound => mindmaps = Unbound
    /\ pc \notin {"load_modules", "close_modules", "load_mindmaps", "close_mindmaps"}
          => open = {}
    /\ out # <<>> => open = {}

\* A run that terminated on the error path after the modules file was
\* opened and json.load failed on it.
C10_Witness ==
    /\ Done
    /\ modulesFile.kind = "badjson"
    /\ out = <<ErrorLine("ValueError")>>
    /\ e = "ValueError"
    /\ open = {}
====
